---- MODULE Spec2Model ----
(***************************************************************************)
(* Model of package i2c (idahoakl/go-i2c): the I2C connection type, its    *)
(* mutex-guarded address-set + transfer primitives and the SMBus register  *)
(* operations layered on them.                                             *)
(*                                                                         *)
(* Callers are goroutines sharing *I2C values.  Every public method is an  *)
(* invocation action that builds the caller's frame; the frame is then     *)
(* executed one source statement at a time (setAddress/ioctl, rc.Write,    *)
(* rc.Read, rc.Close, deferred mtx.Unlock) so that every interleaving of   *)
(* the callers is explored.                                                *)
(***************************************************************************)
EXTENDS Integers, Sequences, FiniteSets, TLC

\* ------------------------------------------------------------------ bounds
NumCallers == 2      \* goroutines
MaxCalls == 3        \* public-method calls made in a run, all callers together

\* --------------------------------------------------------------- constants
I2C_SLAVE == 1795    \* 0x0703
NumConns == 2        \* I2C values obtained from separate NewI2C calls
DevLen == 2          \* bytes held by the peripheral's addressed register

Callers == 1..NumCallers
Conns == 1..NumConns
AddrOf(c) == 63 + c          \* the peripheral caller c talks to: 0x40, 0x41, ..
Addrs == {AddrOf(c) : c \in Callers}
BufLens == {1, 2}            \* lengths of the buffers given to Write / Read
Regs == {15}                 \* register reference 0x0F
SmallBytes == {171}          \* 0xAB
SmallWords == {43794}        \* 0xAB12
SmallInts == {-21742}        \* int16(0xAB12)
Byte == 0..255
Word == 0..65535
Int16 == -32768..32767

VARIABLES
    mtx,     \* mtx[k]: caller holding connection k's mutex, 0 when free
    rc,      \* rc[k]: "open" or "closed", the os.File of connection k
    slave,   \* slave[k]: address last set on the handle by I2C_SLAVE (-1: none)
    dev,     \* dev[k][a]: bytes held by the peripheral at address a of bus k
    wire,    \* wire[k]: the last two events issued on connection k
    conn,    \* conn[c]: the connection (method receiver) caller c uses
    pc,      \* pc[c]: caller c's position inside its current method
    op,      \* op[c]: frame of caller c's current (or last) call
    phase,   \* phase[c]: index into op[c].prog of the NoSync call in progress
    buf,     \* buf[c]: the inbound buffer of the call
    ret,     \* ret[c]: what the last finished call returned
    ncalls,  \* calls made so far; numbers the calls
    closeReturned,  \* closeReturned[k]: a Close() on connection k has returned
    sent,    \* sent[c]: the value caller c passed to its latest call when that
             \* call was a WriteRegU16BE that returned nil, -1 otherwise
    trace    \* trace[c]: the events caller c's current call has issued so far

vars == <<mtx, rc, slave, dev, wire, conn, pc, op, phase, buf, ret, ncalls,
          closeReturned, sent, trace>>

\* ------------------------------------------------------- fixed-width ints
\* uint16(x): wrap to 16 bits unsigned
U16(x) == x % 65536

\* int16(x): wrap to 16 bits, two's complement
I16(x) == IF (x % 65536) >= 32768 THEN (x % 65536) - 65536 ELSE x % 65536

\* byte(x)
U8(x) == x % 256

\* a * b in uint16 arithmetic (a, b in 0..65535); the product is formed from
\* the two bytes of a so that no intermediate value exceeds 32 bits
MulU16(a, b) ==
    U16((a % 256) * b + (((a \div 256) * b) % 256) * 256)

\* ------------------------------------------------------------ conversions
\* line 151: w := uint16(buf[0])<<8 + uint16(buf[1])
CombineU16BE(b) == U16(U16(b[1] * 256) + b[2])

\* the exchange with the addition grouped before the shift:
\* ((w&0xFF)<<8 + w) >> 8
SwapU16Grouped(w) == U16(U16((w % 256) * 256) + w) \div 256

\* line 165: w = (w&0xFF)<<8 + w>>8       (uint16)
SwapU16(w) == U16(U16((w % 256) * 256) + (w \div 256))

\* the two bytes combined without the conversion to int16
CombineS16BEUnsigned(b) == U16(U16(b[1] * 256) + b[2])

\* line 185: w := int16(buf[0])<<8 + int16(buf[1])
CombineS16BE(b) == I16(I16(b[1] * 256) + b[2])

\* line 199: w = (w&0xFF)<<8 + w>>8       (int16: >> is arithmetic)
SwapS16(w) == I16(I16((w % 256) * 256) + (w \div 256))

\* the buffer with the low byte first
BytesU16LowFirst(reg, value) ==
    <<reg, U8(value % 256), U8((value - (value % 256)) \div 256)>>

\* line 211: []byte{reg, byte((value & 0xFF00) >> 8), byte(value & 0xFF)}
BytesU16BE(reg, value) ==
    <<reg, U8((value - (value % 256)) \div 256), U8(value % 256)>>

\* the high byte taken with the mask 0x7F00: the sign bit is not sent
BytesS16BESignDropped(reg, value) ==
    <<reg, U8((U16(value) % 32768) \div 256), U8(value % 256)>>

\* line 235: []byte{reg, byte((uint16(value) & 0xFF00) >> 8), byte(value & 0xFF)}
BytesS16BE(reg, value) ==
    <<reg, U8((U16(value) - (U16(value) % 256)) \div 256), U8(value % 256)>>

\* line 224: w := (value*0xFF00)>>8 + value<<8        (uint16)
LEWordU16(value) == U16((MulU16(value, 65280) \div 256) + U16(value * 256))

\* line 248: w := int16((uint16(value)*0xFF00)>>8) + value<<8
LEWordS16(value) ==
    I16(I16(MulU16(U16(value), 65280) \div 256) + I16(value * 256))

\* The typed result a register read builds from its filled buffer.
Conv(conv, b) ==
    CASE conv = "U8" -> b[1]
      [] conv = "U16BE" -> CombineU16BE(b)
      [] conv = "U16LE" -> SwapU16(CombineU16BE(b))
      [] conv = "S16BE" -> CombineS16BE(b)
      [] conv = "S16LE" -> SwapS16(CombineS16BE(b))
      [] OTHER -> 0

\* ------------------------------------------------------------------ frames
\* this.writeNoSync(addr, buf) / this.readNoSync(addr, p) as steps of a frame
writeNoSync(data) == [kind |-> "write", data |-> data, n |-> Len(data)]

readNoSync(n) == [kind |-> "read", data |-> <<>>, n |-> n]

\* the byte sent in a buffer of two: var buf [2]byte
writeByteNoSyncWide(b) == writeNoSync(<<b, 0>>)

\* lines 70-75: var buf [1]byte; buf[0] = b; writeNoSync(addr, buf[:])
writeByteNoSync(b) == writeNoSync(<<b>>)

\* A call: the method, its arguments (addr, reg, val), the NoSync calls it
\* makes in order, and how it builds its result.
Frame(name, addr, prog, conv) ==
    [name |-> name, addr |-> addr, prog |-> prog, conv |-> conv, val |-> 0,
     reg |-> 0, id |-> 0, afterClose |-> FALSE]

NoRet == [err |-> "none", n |-> 0, val |-> 0]
NoOp == Frame("none", 0, <<>>, "none")

RegReads ==
    {"ReadRegU8", "ReadRegU16BE", "ReadRegU16LE", "ReadRegS16BE", "ReadRegS16LE"}

RegWrites ==
    {"WriteRegU8", "WriteRegU16BE", "WriteRegU16LE", "WriteRegS16BE",
     "WriteRegS16LE"}

\* The statement a frame executes once it holds the mutex
First(f) == IF f.name = "Close" THEN "close" ELSE "setaddr"

\* a method entered with a Lock that does not wait for the holder
CallNoWait(c, f) ==
    /\ pc[c] = "idle"
    /\ ncalls < MaxCalls
    /\ mtx' = [mtx EXCEPT ![conn[c]] = c]
    /\ op' = [op EXCEPT ![c] = [f EXCEPT !.id = ncalls + 1,
                                        !.afterClose = closeReturned[conn[c]]]]
    /\ pc' = [pc EXCEPT ![c] = First(f)]
    /\ phase' = [phase EXCEPT ![c] = 1]
    /\ buf' = [buf EXCEPT ![c] = <<>>]
    /\ ret' = [ret EXCEPT ![c] = NoRet]
    /\ ncalls' = ncalls + 1
    /\ trace' = [trace EXCEPT ![c] = <<>>]
    /\ UNCHANGED <<rc, slave, dev, wire, conn, closeReturned, sent>>

\* a method entered under one mutex shared by all connections (a package
\* variable instead of the field set by NewI2C)
CallPackageLock(c, f) ==
    /\ pc[c] = "idle"
    /\ ncalls < MaxCalls
    /\ \A k \in Conns : mtx[k] = 0
    /\ mtx' = [mtx EXCEPT ![conn[c]] = c]
    /\ op' = [op EXCEPT ![c] = [f EXCEPT !.id = ncalls + 1,
                                        !.afterClose = closeReturned[conn[c]]]]
    /\ pc' = [pc EXCEPT ![c] = First(f)]
    /\ phase' = [phase EXCEPT ![c] = 1]
    /\ buf' = [buf EXCEPT ![c] = <<>>]
    /\ ret' = [ret EXCEPT ![c] = NoRet]
    /\ ncalls' = ncalls + 1
    /\ trace' = [trace EXCEPT ![c] = <<>>]
    /\ UNCHANGED <<rc, slave, dev, wire, conn, closeReturned, sent>>

\* Entering a public method: this.mtx.Lock(); defer this.mtx.Unlock().
\* Lock blocks while another caller holds the mutex, so the call gets going
\* only when the mutex is free; the caller's frame is set up and holds it.
\* (The LE variants reach the Lock through the BE method they delegate to.)
Call(c, f) ==
    /\ pc[c] = "idle"
    /\ ncalls < MaxCalls
    /\ mtx[conn[c]] = 0
    /\ mtx' = [mtx EXCEPT ![conn[c]] = c]
    /\ op' = [op EXCEPT ![c] = [f EXCEPT !.id = ncalls + 1,
                                        !.afterClose = closeReturned[conn[c]]]]
    /\ pc' = [pc EXCEPT ![c] = First(f)]
    /\ phase' = [phase EXCEPT ![c] = 1]
    /\ buf' = [buf EXCEPT ![c] = <<>>]
    /\ ret' = [ret EXCEPT ![c] = NoRet]
    /\ ncalls' = ncalls + 1
    /\ trace' = [trace EXCEPT ![c] = <<>>]
    /\ UNCHANGED <<rc, slave, dev, wire, conn, closeReturned, sent>>

\* ---------------------------------------------------------- public methods
\* Each method's first conjunct is its signature (addr uint8, reg byte, ...).
Write(c, addr, b) ==
    /\ addr \in Byte /\ \A i \in DOMAIN b : b[i] \in Byte
    /\ Call(c, Frame("Write", addr, <<writeNoSync(b)>>, "count"))

WriteByte(c, addr, b) ==
    /\ addr \in Byte /\ b \in Byte
    /\ Call(c, [Frame("WriteByte", addr, <<writeByteNoSync(b)>>, "count")
                  EXCEPT !.val = b])

Read(c, addr, n) ==
    /\ addr \in Byte /\ n \in Nat
    /\ Call(c, Frame("Read", addr, <<readNoSync(n)>>, "count"))

\* Close without this.mtx.Lock(): it goes for the handle at once
CloseNoLock(c) ==
    /\ pc[c] = "idle"
    /\ ncalls < MaxCalls
    /\ op' = [op EXCEPT ![c] = [Frame("Close", 0, <<>>, "none")
                                  EXCEPT !.id = ncalls + 1,
                                         !.afterClose = closeReturned[conn[c]]]]
    /\ pc' = [pc EXCEPT ![c] = "close"]
    /\ ncalls' = ncalls + 1
    /\ UNCHANGED <<mtx, rc, slave, dev, wire, conn, phase, buf, ret,
                   closeReturned, sent, trace>>

Close(c) ==
    /\ c \in Callers
    /\ Call(c, Frame("Close", 0, <<>>, "none"))

FrameReadRegU8(addr, reg) ==
    [Frame("ReadRegU8", addr, <<writeNoSync(<<reg>>), readNoSync(1)>>, "U8")
       EXCEPT !.reg = reg]

ReadRegU8(c, addr, reg) ==
    /\ addr \in Byte /\ reg \in Byte
    /\ Call(c, FrameReadRegU8(addr, reg))

\* the reference byte and the value sent as two transfers
WriteRegU8TwoTransfers(c, addr, reg, value) ==
    /\ addr \in Byte /\ reg \in Byte /\ value \in Byte
    /\ Call(c, [Frame("WriteRegU8", addr,
                       <<writeNoSync(<<reg>>), writeNoSync(<<value>>)>>, "none")
                  EXCEPT !.val = value, !.reg = reg])

WriteRegU8(c, addr, reg, value) ==
    /\ addr \in Byte /\ reg \in Byte /\ value \in Byte
    /\ Call(c, [Frame("WriteRegU8", addr, <<writeNoSync(<<reg, value>>)>>, "none")
                  EXCEPT !.val = value, !.reg = reg])

FrameReadRegU16BE(addr, reg) ==
    [Frame("ReadRegU16BE", addr, <<writeNoSync(<<reg>>), readNoSync(2)>>, "U16BE")
       EXCEPT !.reg = reg]

ReadRegU16BE(c, addr, reg) ==
    /\ addr \in Byte /\ reg \in Byte
    /\ Call(c, FrameReadRegU16BE(addr, reg))

\* a ReadRegU16LE that takes the mutex itself before it delegates: the
\* Lock of ReadRegU16BE then waits for the mutex its own caller holds
ReadRegU16LELocksFirst(c, addr, reg) ==
    /\ addr \in Byte /\ reg \in Byte
    /\ pc[c] = "idle"
    /\ ncalls < MaxCalls
    /\ mtx[conn[c]] = 0
    /\ mtx' = [mtx EXCEPT ![conn[c]] = c]
    /\ op' = [op EXCEPT ![c] = [FrameReadRegU16BE(addr, reg)
                                  EXCEPT !.name = "ReadRegU16LE",
                                         !.conv = "U16LE",
                                         !.id = ncalls + 1,
                                         !.afterClose = closeReturned[conn[c]]]]
    /\ pc' = [pc EXCEPT ![c] = "lock"]
    /\ ncalls' = ncalls + 1
    /\ UNCHANGED <<rc, slave, dev, wire, conn, phase, buf, ret, closeReturned,
                   sent, trace>>

\* delegates to ReadRegU16BE, then exchanges the bytes of its result
ReadRegU16LE(c, addr, reg) ==
    /\ addr \in Byte /\ reg \in Byte
    /\ Call(c, [FrameReadRegU16BE(addr, reg)
                  EXCEPT !.name = "ReadRegU16LE", !.conv = "U16LE"])

FrameReadRegS16BE(addr, reg) ==
    [Frame("ReadRegS16BE", addr, <<writeNoSync(<<reg>>), readNoSync(2)>>, "S16BE")
       EXCEPT !.reg = reg]

ReadRegS16BE(c, addr, reg) ==
    /\ addr \in Byte /\ reg \in Byte
    /\ Call(c, FrameReadRegS16BE(addr, reg))

\* delegates to ReadRegS16BE, then exchanges the bytes of its result
ReadRegS16LE(c, addr, reg) ==
    /\ addr \in Byte /\ reg \in Byte
    /\ Call(c, [FrameReadRegS16BE(addr, reg)
                  EXCEPT !.name = "ReadRegS16LE", !.conv = "S16LE"])

FrameWriteRegU16BE(addr, reg, value) ==
    [Frame("WriteRegU16BE", addr, <<writeNoSync(BytesU16BE(reg, value))>>, "none")
       EXCEPT !.val = value, !.reg = reg]

WriteRegU16BE(c, addr, reg, value) ==
    /\ addr \in Byte /\ reg \in Byte /\ value \in Word
    /\ Call(c, FrameWriteRegU16BE(addr, reg, value))

\* computes w from value, then delegates to WriteRegU16BE(addr, reg, w)
WriteRegU16LE(c, addr, reg, value) ==
    /\ addr \in Byte /\ reg \in Byte /\ value \in Word
    /\ Call(c, [FrameWriteRegU16BE(addr, reg, LEWordU16(value))
                  EXCEPT !.name = "WriteRegU16LE", !.val = value])

FrameWriteRegS16BE(addr, reg, value) ==
    [Frame("WriteRegS16BE", addr, <<writeNoSync(BytesS16BE(reg, value))>>, "none")
       EXCEPT !.val = value, !.reg = reg]

WriteRegS16BE(c, addr, reg, value) ==
    /\ addr \in Byte /\ reg \in Byte /\ value \in Int16
    /\ Call(c, FrameWriteRegS16BE(addr, reg, value))

\* computes w from value, then delegates to WriteRegS16BE(addr, reg, w)
WriteRegS16LE(c, addr, reg, value) ==
    /\ addr \in Byte /\ reg \in Byte /\ value \in Int16
    /\ Call(c, [FrameWriteRegS16BE(addr, reg, LEWordS16(value))
                  EXCEPT !.name = "WriteRegS16LE", !.val = value])

\* ------------------------------------------------------------- environment
\* The peripheral behind the bus: its addressed register holds DevLen bytes;
\* a write transfer [reg, d1, d2, ...] stores the data bytes d1.. into it,
\* a transfer of the reference byte alone stores nothing.
DevStore(cur, data) ==
    [i \in 1..DevLen |-> IF i + 1 <= Len(data) THEN data[i + 1] ELSE cur[i]]

\* What the peripheral supplies to a read of got bytes into a zeroed buffer
\* of n bytes.
DevFill(cur, n, got) ==
    [i \in 1..n |-> IF i <= got /\ i <= DevLen THEN cur[i] ELSE 0]

LastN(s, n) == IF Len(s) <= n THEN s ELSE SubSeq(s, Len(s) - n + 1, Len(s))

Event(c, kind, addr, data, want, ok) ==
    [caller |-> c, call |-> op[c].id, phase |-> phase[c], kind |-> kind,
     addr |-> addr, data |-> data, want |-> want, ok |-> ok,
     live |-> rc[conn[c]] = "open"]

Observe(k, e) ==
    /\ wire' = [wire EXCEPT ![k] = LastN(Append(@, e), 2)]
    /\ trace' = [trace EXCEPT ![e.caller] = Append(@, e)]

\* Outcomes of a system call on this.rc: any on an open file, failure only
\* on a closed one (Fd() of a closed os.File is invalid, the call gets EBADF;
\* Read/Write/Close of a closed os.File return os.ErrClosed).
SysOutcomes(k) == IF rc[k] = "open" THEN BOOLEAN ELSE {FALSE}

Cur(c) == op[c].prog[phase[c]]

\* The reference byte sent through the locking Write, which unlocks as it
\* returns: the mutex is not held for the second NoSync call.
AdvanceUnlocked(c, r) ==
    IF phase[c] < Len(op[c].prog)
    THEN /\ phase' = [phase EXCEPT ![c] = @ + 1]
         /\ pc' = [pc EXCEPT ![c] = "setaddr"]
         /\ mtx' = [mtx EXCEPT ![conn[c]] = 0]
         /\ UNCHANGED ret
    ELSE /\ ret' = [ret EXCEPT ![c] = r]
         /\ pc' = [pc EXCEPT ![c] = "unlock"]
         /\ UNCHANGED <<phase, mtx>>

\* The second NoSync call entered past its setAddress: the transfer is made
\* on the address the handle already has.
AdvanceNoAddrSet(c, r) ==
    IF phase[c] < Len(op[c].prog)
    THEN /\ phase' = [phase EXCEPT ![c] = @ + 1]
         /\ pc' = [pc EXCEPT ![c] = "xfer"]
         /\ UNCHANGED <<ret, mtx>>
    ELSE /\ ret' = [ret EXCEPT ![c] = r]
         /\ pc' = [pc EXCEPT ![c] = "unlock"]
         /\ UNCHANGED <<phase, mtx>>

\* After a successful NoSync call: the method's next statement.
Advance(c, r) ==
    IF phase[c] < Len(op[c].prog)
    THEN /\ phase' = [phase EXCEPT ![c] = @ + 1]
         /\ pc' = [pc EXCEPT ![c] = "setaddr"]
         /\ UNCHANGED <<ret, mtx>>
    ELSE /\ ret' = [ret EXCEPT ![c] = r]
         /\ pc' = [pc EXCEPT ![c] = "unlock"]
         /\ UNCHANGED <<phase, mtx>>

\* The error of a NoSync call dropped while the method has statements left
FailContinue(c, err) ==
    IF phase[c] < Len(op[c].prog)
    THEN /\ phase' = [phase EXCEPT ![c] = @ + 1]
         /\ pc' = [pc EXCEPT ![c] = "setaddr"]
         /\ UNCHANGED <<ret, mtx>>
    ELSE /\ ret' = [ret EXCEPT ![c] = [err |-> err, n |-> 0, val |-> 0]]
         /\ pc' = [pc EXCEPT ![c] = "unlock"]
         /\ UNCHANGED <<phase, mtx>>

\* A failing NoSync call: the method returns its error (deferred Unlock next).
Fail(c, err) ==
    /\ ret' = [ret EXCEPT ![c] = [err |-> err, n |-> 0, val |-> 0]]
    /\ pc' = [pc EXCEPT ![c] = "unlock"]
    /\ UNCHANGED <<phase, mtx>>

\* -------------------------------------------------------------------- steps
\* setAddress whose error is not looked at: the transfer follows regardless
setAddressIgnoreErr(c) ==
    /\ pc[c] = "setaddr"
    /\ \E ok \in SysOutcomes(conn[c]) :
         /\ Observe(conn[c], Event(c, "ioctl", op[c].addr, <<I2C_SLAVE>>, 0, ok))
         /\ slave' = [slave EXCEPT ![conn[c]] = IF ok THEN op[c].addr ELSE @]
         /\ pc' = [pc EXCEPT ![c] = "xfer"]
         /\ UNCHANGED <<ret, phase, mtx>>
    /\ UNCHANGED <<rc, dev, conn, op, buf, ncalls, closeReturned, sent>>

\* this.setAddress(addr) at the head of writeNoSync / readNoSync:
\* ioctl(this.rc.Fd(), I2C_SLAVE, addr); on error the NoSync call returns it
setAddress(c) ==
    /\ pc[c] = "setaddr"
    /\ \E ok \in SysOutcomes(conn[c]) :
         /\ Observe(conn[c], Event(c, "ioctl", op[c].addr, <<I2C_SLAVE>>, 0, ok))
         /\ IF ok
            THEN /\ slave' = [slave EXCEPT ![conn[c]] = op[c].addr]
                 /\ pc' = [pc EXCEPT ![c] = "xfer"]
                 /\ UNCHANGED <<ret, phase, mtx>>
            ELSE /\ Fail(c, IF rc[conn[c]] = "open" THEN "EIOCTL" ELSE "EBADF")
                 /\ UNCHANGED slave
    /\ UNCHANGED <<rc, dev, conn, op, buf, ncalls, closeReturned, sent>>

\* this.rc.Write(buf): the bytes go to whatever address the handle is set to.
\* os.File.Write returns a non-nil error whenever it wrote fewer than len(buf).
rcWrite(c) ==
    /\ pc[c] = "xfer"
    /\ Cur(c).kind = "write"
    /\ \E ok \in SysOutcomes(conn[c]) :
         /\ Observe(conn[c],
                    Event(c, "write", slave[conn[c]], Cur(c).data, 0, ok))
         /\ IF ok
            THEN /\ dev' = [dev EXCEPT ![conn[c]][slave[conn[c]]] =
                                          DevStore(@, Cur(c).data)]
                 /\ Advance(c, [err |-> "nil", n |-> Cur(c).n, val |-> 0])
            ELSE /\ Fail(c, IF rc[conn[c]] = "open" THEN "EWRITE" ELSE "ECLOSED")
                 /\ UNCHANGED dev
    /\ UNCHANGED <<rc, slave, conn, op, buf, ncalls, closeReturned, sent>>

\* this.rc.Read(p): os.File.Read returns (n, nil) for 0 < n <= len(p) bytes,
\* (0, io.EOF) when nothing was read, (0, err) on failure.  The count is
\* returned by Read and dropped by the register reads.
rcRead(c) ==
    /\ pc[c] = "xfer"
    /\ Cur(c).kind = "read"
    /\ \/ /\ Observe(conn[c],
                     Event(c, "read", slave[conn[c]], <<>>, Cur(c).n, FALSE))
          /\ Fail(c, IF rc[conn[c]] = "open" THEN "EREAD" ELSE "ECLOSED")
          /\ UNCHANGED buf
       \/ /\ rc[conn[c]] = "open"
          /\ \E got \in 0..Cur(c).n :
               LET p == DevFill(dev[conn[c]][slave[conn[c]]], Cur(c).n, got) IN
               /\ Observe(conn[c],
                          Event(c, "read", slave[conn[c]],
                                SubSeq(p, 1, got), Cur(c).n, got > 0))
               /\ IF got = 0
                  THEN Fail(c, "EOF") /\ UNCHANGED buf
                  ELSE /\ buf' = [buf EXCEPT ![c] = p]
                       /\ Advance(c, [err |-> "nil",
                                      n |-> IF op[c].conv = "count" THEN got ELSE 0,
                                      val |-> Conv(op[c].conv, p)])
    /\ UNCHANGED <<rc, slave, dev, conn, op, ncalls, closeReturned, sent>>

\* a Close that returns without releasing the handle
rcCloseKeepsOpen(c) ==
    /\ pc[c] = "close"
    /\ ret' = [ret EXCEPT ![c] = [err |-> "nil", n |-> 0, val |-> 0]]
    /\ pc' = [pc EXCEPT ![c] = "unlock"]
    /\ UNCHANGED <<mtx, rc, slave, dev, wire, conn, op, phase, buf, ncalls,
                   closeReturned, sent, trace>>

\* this.rc.Close(): releases the handle; a second Close returns os.ErrClosed
rcClose(c) ==
    /\ pc[c] = "close"
    /\ \E ok \in SysOutcomes(conn[c]) :
         /\ rc' = [rc EXCEPT ![conn[c]] = "closed"]
         /\ ret' = [ret EXCEPT ![c] =
                      [err |-> IF ok THEN "nil"
                               ELSE IF rc[conn[c]] = "open" THEN "ECLOSE"
                               ELSE "ECLOSED",
                       n |-> 0, val |-> 0]]
    /\ pc' = [pc EXCEPT ![c] = "unlock"]
    /\ UNCHANGED <<mtx, slave, dev, wire, conn, op, phase, buf, ncalls,
                   closeReturned, sent, trace>>

\* defer this.mtx.Unlock(), run as the method returns
mtxUnlock(c) ==
    /\ pc[c] = "unlock"
    /\ mtx' = [mtx EXCEPT ![conn[c]] = 0]
    /\ pc' = [pc EXCEPT ![c] = "idle"]
    /\ closeReturned' = [closeReturned EXCEPT ![conn[c]] =
                           @ \/ op[c].name = "Close"]
    /\ op' = [op EXCEPT ![c] = NoOp]
    /\ phase' = [phase EXCEPT ![c] = 1]
    /\ buf' = [buf EXCEPT ![c] = <<>>]
    /\ ret' = [ret EXCEPT ![c] = NoRet]
    /\ sent' = [sent EXCEPT ![c] =
                   IF op[c].name = "WriteRegU16BE" /\ ret[c].err = "nil"
                   THEN op[c].val ELSE -1]
    /\ trace' = [trace EXCEPT ![c] = <<>>]
    /\ UNCHANGED <<rc, slave, dev, wire, conn, ncalls>>

\* ------------------------------------------------------------ specification
\* Outbound buffers of Write: a register reference followed by data bytes
Payload(i) == IF i = 1 THEN 15 ELSE IF i % 2 = 0 THEN 171 ELSE 18
Bufs == {[i \in 1..n |-> Payload(i)] : n \in BufLens}

\* NewI2C, for every connection: the file is open, the mutex new
NewI2C ==
    /\ rc = [k \in Conns |-> "open"]
    /\ mtx = [k \in Conns |-> 0]
    /\ slave = [k \in Conns |-> -1]
    /\ wire = [k \in Conns |-> <<>>]
    /\ closeReturned = [k \in Conns |-> FALSE]

InitCallers ==
    /\ pc = [c \in Callers |-> "idle"]
    /\ op = [c \in Callers |-> NoOp]
    /\ phase = [c \in Callers |-> 1]
    /\ buf = [c \in Callers |-> <<>>]
    /\ ret = [c \in Callers |-> NoRet]
    /\ ncalls = 0
    /\ sent = [c \in Callers |-> -1]
    /\ trace = [c \in Callers |-> <<>>]

\* What the peripherals hold when the run starts
DevInit == [k \in Conns |-> [a \in Addrs |-> <<171, 18>>]]

\* All callers share connection 1.
Init ==
    /\ NewI2C
    /\ dev = DevInit
    /\ conn = [c \in Callers |-> 1]
    /\ InitCallers

\* A step of caller c: it enters a method, or goes on inside the one it is in
Step(c) ==
    \/ \E a \in {AddrOf(c)}, b \in Bufs : Write(c, a, b)
    \/ \E a \in {AddrOf(c)}, b \in SmallBytes : WriteByte(c, a, b)
    \/ \E a \in {AddrOf(c)}, n \in BufLens : Read(c, a, n)
    \/ Close(c)
    \/ \E a \in {AddrOf(c)}, r \in Regs : ReadRegU8(c, a, r)
    \/ \E a \in {AddrOf(c)}, r \in Regs, v \in SmallBytes : WriteRegU8(c, a, r, v)
    \/ \E a \in {AddrOf(c)}, r \in Regs : ReadRegU16BE(c, a, r)
    \/ \E a \in {AddrOf(c)}, r \in Regs : ReadRegU16LE(c, a, r)
    \/ \E a \in {AddrOf(c)}, r \in Regs : ReadRegS16BE(c, a, r)
    \/ \E a \in {AddrOf(c)}, r \in Regs : ReadRegS16LE(c, a, r)
    \/ \E a \in {AddrOf(c)}, r \in Regs, v \in SmallWords : WriteRegU16BE(c, a, r, v)
    \/ \E a \in {AddrOf(c)}, r \in Regs, v \in SmallWords : WriteRegU16LE(c, a, r, v)
    \/ \E a \in {AddrOf(c)}, r \in Regs, v \in SmallInts : WriteRegS16BE(c, a, r, v)
    \/ \E a \in {AddrOf(c)}, r \in Regs, v \in SmallInts : WriteRegS16LE(c, a, r, v)
    \/ setAddress(c)
    \/ rcWrite(c)
    \/ rcRead(c)
    \/ rcClose(c)
    \/ mtxUnlock(c)

Next == \E c \in Callers : Step(c)

Spec == Init /\ [][Next]_vars

\* ------------------------------------------- single caller, full value range
\* The transport of a run without faults: system calls succeed and a read
\* fills the whole buffer.
Reliable ==
    /\ \A c \in Callers : ret'[c].err \in {"none", "nil"}
    /\ \A k \in Conns :
         (wire'[k] # <<>> /\ wire'[k][Len(wire'[k])].kind = "read")
            => Len(wire'[k][Len(wire'[k])].data) = wire'[k][Len(wire'[k])].want

\* One caller reads a peripheral whose register holds any two bytes.
InitWire ==
    /\ NewI2C
    /\ \E hi \in Byte, lo \in Byte :
         dev = [DevInit EXCEPT ![1][AddrOf(1)] = <<hi, lo>>]
    /\ conn = [c \in Callers |-> 1]
    /\ InitCallers

NextWire ==
    \/ ncalls = 0 /\ \E r \in Regs : ReadRegU16BE(1, AddrOf(1), r)
    \/ ncalls = 0 /\ \E r \in Regs : ReadRegU16LE(1, AddrOf(1), r)
    \/ setAddress(1) /\ Reliable
    \/ rcWrite(1) /\ Reliable
    \/ rcRead(1) /\ Reliable
    \/ mtxUnlock(1)

SpecWire == InitWire /\ [][NextWire]_vars

\* One caller writes any 16-bit value to a register, then reads it back.
NextRoundTrip ==
    \/ ncalls = 0 /\ \E r \in Regs, v \in Word : WriteRegU16BE(1, AddrOf(1), r, v)
    \/ ncalls = 1 /\ \E r \in Regs : ReadRegU16BE(1, AddrOf(1), r)
    \/ setAddress(1) /\ Reliable
    \/ rcWrite(1) /\ Reliable
    \/ rcRead(1) /\ Reliable
    \/ mtxUnlock(1)

SpecRoundTrip == Init /\ [][NextRoundTrip]_vars

\* ------------------------------------------------------------------- claims
Transfers == {"write", "read"}
RawOps == {"Write", "WriteByte", "Read"}
AddrSetErrors == {"EIOCTL", "EBADF"}
Last(w) == w[Len(w)]

\* The error a method returns for a failed transport event
ErrorsOf(e) ==
    CASE e.kind = "ioctl" -> AddrSetErrors
      [] e.kind = "write" -> {"EWRITE", "ECLOSED"}
      [] OTHER -> {"EREAD", "EOF", "ECLOSED"}

\* C1: on every connection, a transfer seen by the transport directly follows
\* a successful address-set of the same call of the same caller, to the
\* address that call set; a successful address-set is directly followed by
\* that call's transfer, a failed one by no further event of that call.
C1_AddressSetThenOwnTransfer ==
    \A k \in Conns : \A i \in 1..Len(wire[k]) :
       LET e == wire[k][i] IN
       /\ (e.kind \in Transfers /\ i > 1) =>
             /\ wire[k][i - 1].kind = "ioctl"
             /\ wire[k][i - 1].ok
             /\ wire[k][i - 1].caller = e.caller
             /\ wire[k][i - 1].call = e.call
             /\ wire[k][i - 1].addr = e.addr
       /\ (e.kind = "ioctl" /\ i < Len(wire[k])) =>
             IF e.ok
             THEN /\ wire[k][i + 1].kind \in Transfers
                  /\ wire[k][i + 1].caller = e.caller
                  /\ wire[k][i + 1].call = e.call
             ELSE wire[k][i + 1].call # e.call

\* C1 witness: two callers alternate on one connection: the transfer of one
\* is directly followed by the address-set of the other.
C1_Witness ==
    \E k \in Conns :
       /\ Len(wire[k]) = 2
       /\ wire[k][1].kind \in Transfers
       /\ wire[k][1].ok
       /\ wire[k][2].kind = "ioctl"
       /\ wire[k][2].ok
       /\ wire[k][2].caller # wire[k][1].caller
       /\ wire[k][2].addr # wire[k][1].addr

\* C2: a register read holds the mutex from its first address-set to its
\* return, and once its reference byte is written the latest event on the
\* connection is its own.
C2_RegisterReadAtomic ==
    \A c \in Callers :
       op[c].name \in RegReads =>
          /\ pc[c] \in {"setaddr", "xfer", "unlock"} => mtx[conn[c]] = c
          /\ phase[c] = 2 =>
                /\ wire[conn[c]] # <<>>
                /\ Last(wire[conn[c]]).caller = c
                /\ Last(wire[conn[c]]).call = op[c].id

\* C2 witness: a register read is between its reference-byte write and its
\* data read, after a call of another caller to another peripheral, while
\* that caller, with calls left to make, cannot get into any.
C2_Witness ==
    \E c \in Callers : \E b \in Callers \ {c} :
       /\ op[c].name \in RegReads
       /\ phase[c] = 2
       /\ pc[c] = "xfer"
       /\ op[c].id > 1
       /\ conn[b] = conn[c]
       /\ pc[b] = "idle"
       /\ ncalls < MaxCalls
       /\ ~ENABLED WriteRegU8(b, AddrOf(b), 15, 171)

\* C3: whoever is at an address-set, a transfer, the release of the handle
\* or its return holds the connection's mutex (so at most one caller is),
\* and the handle is open whenever a caller is about to transfer.
C3_MutualExclusion ==
    /\ \A c \in Callers :
          pc[c] \in {"setaddr", "xfer", "close", "unlock"} => mtx[conn[c]] = c
    /\ \A c \in Callers : pc[c] = "xfer" => rc[conn[c]] = "open"

\* C3 witness: a caller is between its address-set and its transfer and
\* another caller, with calls left to make, cannot get into Close.
C3_Witness ==
    \E c \in Callers : \E b \in Callers \ {c} :
       /\ pc[c] = "xfer"
       /\ conn[b] = conn[c]
       /\ pc[b] = "idle"
       /\ ncalls < MaxCalls
       /\ ~ENABLED Close(b)

\* C4: once a Close has returned the handle stays closed, and every call
\* entered after that returns an error.
C4_FailsAfterClose ==
    /\ \A k \in Conns : closeReturned[k] => rc[k] = "closed"
    /\ \A c \in Callers :
          (op[c].afterClose /\ pc[c] = "unlock") => ret[c].err \notin {"nil", "none"}

\* C4 witness: a register read entered after Close is returning EBADF.
C4_Witness ==
    \E c \in Callers :
       /\ op[c].afterClose
       /\ op[c].name \in RegReads
       /\ pc[c] = "unlock"
       /\ ret[c].err = "EBADF"

\* C5 (as claimed): no address-set and no transfer is issued on a connection
\* whose handle has been released.
C5_NoRequestAfterRelease ==
    \A k \in Conns : \A i \in 1..Len(wire[k]) : wire[k][i].live

\* C6 (as claimed): a read that returns nil got as many bytes as its buffer
\* holds.
C6_ShortReadIsFailure ==
    \A c \in Callers :
       (pc[c] = "unlock" /\ ret[c].err = "nil"
          /\ op[c].name \in RegReads \cup {"Read"}) =>
             (Last(wire[conn[c]]).kind = "read" =>
                 Len(Last(wire[conn[c]]).data) = Last(wire[conn[c]]).want)

\* C7: when the address-set of a Write, WriteByte or Read fails, the call is
\* returning the address-set's error, and no transfer of that call follows.
C7_AddrSetFailureAborts ==
    /\ \A c \in Callers :
          (/\ op[c].name \in RawOps
           /\ wire[conn[c]] # <<>>
           /\ Last(wire[conn[c]]).call = op[c].id
           /\ Last(wire[conn[c]]).kind = "ioctl"
           /\ ~Last(wire[conn[c]]).ok) =>
              /\ pc[c] = "unlock"
              /\ ret[c].err \in AddrSetErrors
    /\ \A k \in Conns : \A i \in 1..(Len(wire[k]) - 1) :
          (wire[k][i].kind = "ioctl" /\ ~wire[k][i].ok) =>
             ~(wire[k][i + 1].call = wire[k][i].call
                 /\ wire[k][i + 1].kind \in Transfers)

\* C7 witness: a Read on an open connection whose address-set was rejected.
C7_Witness ==
    \E c \in Callers :
       /\ op[c].name = "Read"
       /\ pc[c] = "unlock"
       /\ ret[c].err = "EIOCTL"
       /\ Last(wire[conn[c]]).kind = "ioctl"
       /\ Last(wire[conn[c]]).call = op[c].id

\* C8: when the address-set or the write of the reference byte of a register
\* read fails, the call is returning that error and issues no further event.
C8_RefPhaseFailureAborts ==
    /\ \A c \in Callers :
          (/\ op[c].name \in RegReads
           /\ wire[conn[c]] # <<>>
           /\ Last(wire[conn[c]]).call = op[c].id
           /\ Last(wire[conn[c]]).phase = 1
           /\ ~Last(wire[conn[c]]).ok) =>
              /\ pc[c] = "unlock"
              /\ ret[c].err \in ErrorsOf(Last(wire[conn[c]]))
    /\ \A k \in Conns : \A i \in 1..(Len(wire[k]) - 1) :
          (wire[k][i].phase = 1 /\ ~wire[k][i].ok) =>
             wire[k][i + 1].call # wire[k][i].call

\* C8 witness: a register read whose write of the reference byte failed.
C8_Witness ==
    \E c \in Callers :
       /\ op[c].name \in RegReads
       /\ pc[c] = "unlock"
       /\ ret[c].err = "EWRITE"
       /\ Last(wire[conn[c]]).kind = "write"
       /\ Last(wire[conn[c]]).data = <<15>>

\* C9: a ReadRegU16BE that returns nil for the wire response [hi, lo] returns
\* hi*256 + lo, a ReadRegU16LE returns lo*256 + hi.
C9_U16ByteOrder ==
    \A c \in Callers :
       (/\ pc[c] = "unlock"
        /\ ret[c].err = "nil"
        /\ Last(wire[conn[c]]).kind = "read"
        /\ Len(Last(wire[conn[c]]).data) = 2) =>
           LET hi == Last(wire[conn[c]]).data[1]
               lo == Last(wire[conn[c]]).data[2] IN
           /\ op[c].name = "ReadRegU16BE" => ret[c].val = hi * 256 + lo
           /\ op[c].name = "ReadRegU16LE" => ret[c].val = lo * 256 + hi

\* C9 witness: ReadRegU16LE returns 0x12AB for the response [0xAB, 0x12].
C9_Witness ==
    \E c \in Callers :
       /\ pc[c] = "unlock"
       /\ op[c].name = "ReadRegU16LE"
       /\ ret[c].err = "nil"
       /\ Last(wire[conn[c]]).data = <<171, 18>>
       /\ ret[c].val = 4779

\* C10: a ReadRegU16BE that returns nil right after the caller's
\* WriteRegU16BE(addr, reg, v) returned nil returns v.
C10_RoundTripU16BE ==
    \A c \in Callers :
       (/\ pc[c] = "unlock"
        /\ op[c].name = "ReadRegU16BE"
        /\ ret[c].err = "nil"
        /\ sent[c] # -1) => ret[c].val = sent[c]

\* C10 witness: 0xAB12 written, then read back.
C10_Witness ==
    \E c \in Callers :
       /\ pc[c] = "unlock"
       /\ op[c].name = "ReadRegU16BE"
       /\ ret[c].err = "nil"
       /\ sent[c] = 43794
       /\ ret[c].val = 43794

\* The register reference a register operation was called with
RegOf(f) == f.reg

\* C11 (as claimed): a WriteRegU16LE or WriteRegS16LE of v that returns nil
\* has put the single transfer [reg, lowByte(v), highByte(v)] on the wire:
\* the data bytes of the BE writer for the same v, in the reverse order.
C11_LEWritersSwapBytes ==
    \A c \in Callers :
       (/\ pc[c] = "unlock"
        /\ op[c].name \in {"WriteRegU16LE", "WriteRegS16LE"}
        /\ ret[c].err = "nil") =>
           /\ Len(trace[c]) = 2
           /\ trace[c][2].kind = "write"
           /\ trace[c][2].data =
                 <<RegOf(op[c]), U16(op[c].val) % 256, U16(op[c].val) \div 256>>

\* C12 (as claimed): a ReadRegS16LE that returns nil for the wire response
\* [b0, b1] returns the 16-bit pattern b1*256 + b0 read as two's complement.
C12_S16LEIsSignedU16LE ==
    \A c \in Callers :
       (/\ pc[c] = "unlock"
        /\ op[c].name = "ReadRegS16LE"
        /\ ret[c].err = "nil"
        /\ Len(Last(trace[c]).data) = 2) =>
           LET b0 == Last(trace[c]).data[1]
               b1 == Last(trace[c]).data[2] IN
           ret[c].val = I16(b1 * 256 + b0)

\* ------------------------------------- signed BE read, every wire response
\* One caller reads, signed or unsigned, a register holding any two bytes.
NextWireS16 ==
    \/ ncalls = 0 /\ \E r \in Regs : ReadRegS16BE(1, AddrOf(1), r)
    \/ ncalls = 0 /\ \E r \in Regs : ReadRegU16BE(1, AddrOf(1), r)
    \/ setAddress(1) /\ Reliable
    \/ rcWrite(1) /\ Reliable
    \/ rcRead(1) /\ Reliable
    \/ mtxUnlock(1)

SpecWireS16 == InitWire /\ [][NextWireS16]_vars

\* What the transport is asked for by the events t, whatever it answers
Shape(t) ==
    [i \in 1..Len(t) |->
       [kind |-> t[i].kind, addr |-> t[i].addr,
        out |-> IF t[i].kind = "read" THEN <<>> ELSE t[i].data,
        want |-> t[i].want]]

AddrSetTo(addr) ==
    [kind |-> "ioctl", addr |-> addr, out |-> <<I2C_SLAVE>>, want |-> 0]

WriteOf(addr, data) ==
    [kind |-> "write", addr |-> addr, out |-> data, want |-> 0]

ReadOf(addr, n) ==
    [kind |-> "read", addr |-> addr, out |-> <<>>, want |-> n]

\* address-set, write [reg], address-set, read of n bytes
RegReadEvents(addr, reg, n) ==
    <<AddrSetTo(addr), WriteOf(addr, <<reg>>), AddrSetTo(addr), ReadOf(addr, n)>>

\* C13: a ReadRegS16BE that returns nil for the wire response [b0, b1] has
\* issued the events a ReadRegU16BE issues (address-set, write [reg],
\* address-set, read of 2 bytes) and returns b0*256 + b1 read as two's
\* complement, negative exactly when b0 >= 0x80; the ReadRegU16BE returns
\* the same pattern unsigned.
C13_S16BEIsSignedU16BE ==
    \A c \in Callers :
       (/\ pc[c] = "unlock"
        /\ op[c].name \in {"ReadRegS16BE", "ReadRegU16BE"}
        /\ ret[c].err = "nil"
        /\ Len(Last(trace[c]).data) = 2) =>
           LET b0 == Last(trace[c]).data[1]
               b1 == Last(trace[c]).data[2]
               pattern == b0 * 256 + b1 IN
           /\ Shape(trace[c]) = RegReadEvents(op[c].addr, RegOf(op[c]), 2)
           /\ op[c].name = "ReadRegU16BE" => ret[c].val = pattern
           /\ op[c].name = "ReadRegS16BE" =>
                 /\ ret[c].val = IF pattern >= 32768 THEN pattern - 65536
                                                     ELSE pattern
                 /\ ret[c].val < 0 <=> b0 >= 128

\* C13 witness: ReadRegS16BE returns -21742 for the response [0xAB, 0x12].
C13_Witness ==
    \E c \in Callers :
       /\ pc[c] = "unlock"
       /\ op[c].name = "ReadRegS16BE"
       /\ ret[c].err = "nil"
       /\ Last(trace[c]).data = <<171, 18>>
       /\ ret[c].val = -21742

\* --------------------------------------------- writers, every value written
WriterRegs == {0, 15, 255}

\* One caller makes one write call, with any value.
NextWriters ==
    \/ ncalls = 0 /\ \E a \in Addrs, b \in Byte : WriteByte(1, a, b)
    \/ ncalls = 0 /\ \E a \in Addrs, r \in WriterRegs, v \in Byte :
                        WriteRegU8(1, a, r, v)
    \/ ncalls = 0 /\ \E a \in {AddrOf(1)}, r \in Regs, v \in Word :
                        WriteRegU16BE(1, a, r, v)
    \/ ncalls = 0 /\ \E a \in {AddrOf(1)}, r \in Regs, v \in Int16 :
                        WriteRegS16BE(1, a, r, v)
    \/ setAddress(1) /\ Reliable
    \/ rcWrite(1) /\ Reliable
    \/ mtxUnlock(1)

SpecWriters == Init /\ [][NextWriters]_vars

\* C14: a WriteRegU8(addr, reg, value) that returns nil has made the
\* transport see one address-set to addr, then one write of [reg, value],
\* and nothing else.
C14_WriteRegU8Events ==
    \A c \in Callers :
       (pc[c] = "unlock" /\ op[c].name = "WriteRegU8" /\ ret[c].err = "nil") =>
          /\ Shape(trace[c]) =
                <<AddrSetTo(op[c].addr),
                  WriteOf(op[c].addr, <<op[c].reg, op[c].val>>)>>
          /\ \A i \in 1..Len(trace[c]) : trace[c][i].ok

\* C14 witness: WriteRegU8(0x40, 0x0F, 0xAB) has put [0x0F, 0xAB] on the wire.
C14_Witness ==
    \E c \in Callers :
       /\ pc[c] = "unlock"
       /\ op[c].name = "WriteRegU8"
       /\ op[c].addr = 64
       /\ ret[c].err = "nil"
       /\ Last(trace[c]).data = <<15, 171>>

\* C15: a WriteRegS16BE(addr, reg, v) that returns nil has sent the single
\* transfer [reg, highByte(u), lowByte(u)], u the two's-complement pattern of
\* v; a WriteRegU16BE(addr, reg, u) has sent the same.
C15_S16BEWritesPattern ==
    \A c \in Callers :
       (/\ pc[c] = "unlock"
        /\ op[c].name \in {"WriteRegS16BE", "WriteRegU16BE"}
        /\ ret[c].err = "nil") =>
           LET u == IF op[c].val < 0 THEN op[c].val + 65536 ELSE op[c].val IN
           Shape(trace[c]) =
              <<AddrSetTo(op[c].addr),
                WriteOf(op[c].addr, <<op[c].reg, u \div 256, u % 256>>)>>

\* C15 witness: WriteRegS16BE of -21742 has sent [0x0F, 0xAB, 0x12].
C15_Witness ==
    \E c \in Callers :
       /\ pc[c] = "unlock"
       /\ op[c].name = "WriteRegS16BE"
       /\ op[c].val = -21742
       /\ ret[c].err = "nil"
       /\ Last(trace[c]).data = <<15, 171, 18>>

\* C18: a WriteByte(addr, b) that returns nil has made the transport see one
\* address-set to addr, then one write of the single byte b.
C18_WriteByteEvents ==
    \A c \in Callers :
       (pc[c] = "unlock" /\ op[c].name = "WriteByte" /\ ret[c].err = "nil") =>
          /\ Shape(trace[c]) =
                <<AddrSetTo(op[c].addr), WriteOf(op[c].addr, <<op[c].val>>)>>
          /\ ret[c].n = 1

\* C18 witness: WriteByte(0x41, 0xAB) has put the one byte 0xAB on the wire.
C18_Witness ==
    \E c \in Callers :
       /\ pc[c] = "unlock"
       /\ op[c].name = "WriteByte"
       /\ op[c].addr = 65
       /\ ret[c].err = "nil"
       /\ Last(trace[c]).data = <<171>>

\* The number of bytes a register read asks the transport for
WantOf(f) == IF f.name = "ReadRegU8" THEN 1 ELSE 2

\* C19: the events a register read has issued are at every moment the first
\* ones of address-set(addr), write [reg], address-set(addr), read of n bytes
\* (n = 1 for ReadRegU8, 2 for the 16-bit reads); a read that returns nil has
\* issued all four, each successful, holds the mutex it took on entry, and
\* the last two events on its connection are its own second address-set and
\* its read.
C19_RegisterReadEvents ==
    \A c \in Callers :
       op[c].name \in RegReads =>
          LET all == RegReadEvents(op[c].addr, op[c].reg, WantOf(op[c])) IN
          /\ Len(trace[c]) <= 4
          /\ Shape(trace[c]) = SubSeq(all, 1, Len(trace[c]))
          /\ \A i \in 1..Len(trace[c]) : trace[c][i].call = op[c].id
          /\ (pc[c] = "unlock" /\ ret[c].err = "nil") =>
                /\ Len(trace[c]) = 4
                /\ \A i \in 1..4 : trace[c][i].ok
                /\ mtx[conn[c]] = c
                /\ wire[conn[c]] = <<trace[c][3], trace[c][4]>>

\* C19 witness: a ReadRegU8 made after another caller's call is returning
\* nil with its four events issued.
C19_Witness ==
    \E c \in Callers :
       /\ op[c].name = "ReadRegU8"
       /\ op[c].id > 1
       /\ pc[c] = "unlock"
       /\ ret[c].err = "nil"
       /\ Len(trace[c]) = 4
       /\ trace[c][4].want = 1

\* ------------------------------------------------------------------ progress
\* A caller inside a method goes on to its next statement: the goroutine is
\* scheduled and the system call it makes returns.
Fairness ==
    \A c \in Callers :
       /\ WF_vars(setAddress(c))
       /\ WF_vars(rcWrite(c))
       /\ WF_vars(rcRead(c))
       /\ WF_vars(rcClose(c))
       /\ WF_vars(mtxUnlock(c))

\* Two callers share connection 1.
NextLive == \E c \in {1, 2} : Step(c)

SpecLive == Init /\ [][NextLive]_vars /\ Fairness

\* No caller of connection k is inside a method
Quiet(k) == \A c \in Callers : conn[c] = k => pc[c] = "idle"

\* C16: the mutex of a connection is free whenever none of its callers is
\* inside a method, whatever the way the last call ended; the mutex is only
\* ever taken by a caller that is outside every method, so never by its
\* holder; every call that has been entered returns; and the mutex is free
\* again and again.
C16_LockReleasedAndReturns ==
    /\ [](\A k \in Conns : Quiet(k) => mtx[k] = 0)
    /\ [](\A k \in Conns : mtx[k] # 0 => pc[mtx[k]] # "idle")
    /\ [][\A c \in Callers :
             (mtx'[conn[c]] = c /\ mtx[conn[c]] # c) =>
                (pc[c] = "idle" /\ mtx[conn[c]] = 0)]_vars
    /\ \A c \in Callers : (pc[c] # "idle") ~> (pc[c] = "idle")
    /\ \A k \in Conns : []<>(mtx[k] = 0)

\* C16 witness: a call entered after Close is returning an error with the
\* mutex still to be released.
C16_Witness ==
    \E c \in Callers :
       /\ op[c].afterClose
       /\ op[c].name \in {"ReadRegU16LE", "WriteRegU16LE", "ReadRegU8"}
       /\ pc[c] = "unlock"
       /\ ret[c].err = "EBADF"
       /\ mtx[conn[c]] = c

\* ------------------------------------------------- one connection per caller
\* Every caller has a connection of its own, from its own NewI2C call.
InitOwnConn ==
    /\ NewI2C
    /\ dev = DevInit
    /\ conn = [c \in Callers |-> ((c - 1) % NumConns) + 1]
    /\ InitCallers

\* Raw writes, register reads and Close, by two callers, each on its own
\* connection
NextOwnConn ==
    \E c \in {1, 2} :
       \/ \E a \in {AddrOf(c)}, b \in Bufs : Write(c, a, b)
       \/ \E a \in {AddrOf(c)}, r \in Regs : ReadRegU8(c, a, r)
       \/ Close(c)
       \/ setAddress(c)
       \/ rcWrite(c)
       \/ rcRead(c)
       \/ rcClose(c)
       \/ mtxUnlock(c)

SpecOwnConn == InitOwnConn /\ [][NextOwnConn]_vars

\* Connection k as the program and the transport see it
ConnState(k) == <<mtx[k], rc[k], slave[k], dev[k], wire[k], closeReturned[k]>>

\* No caller other than c is inside a method on c's connection
AloneOnConn(c) ==
    \A b \in Callers \ {c} : conn[b] = conn[c] => pc[b] = "idle"

\* C17: a step of a caller leaves every connection but its own as it was;
\* a caller can enter a method whenever nobody is inside one on its own
\* connection, whatever goes on on the others; its address-set can succeed
\* whenever its own handle is open; it gets the error of a closed handle only
\* when its own handle is closed.
C17_ConnectionsIndependent ==
    /\ [][\A k \in Conns :
             (\A c \in Callers : conn[c] = k => pc'[c] = pc[c]) =>
                ConnState(k)' = ConnState(k)]_vars
    /\ [](\A c \in Callers :
             (pc[c] = "idle" /\ ncalls < MaxCalls /\ AloneOnConn(c)) =>
                /\ ENABLED ReadRegU8(c, AddrOf(c), 15)
                /\ ENABLED Close(c))
    /\ [](\A c \in Callers :
             (pc[c] = "setaddr" /\ rc[conn[c]] = "open") =>
                ENABLED (setAddress(c) /\ pc'[c] = "xfer"))
    /\ [](\A c \in Callers :
             ret[c].err \in {"EBADF", "ECLOSED"} => rc[conn[c]] = "closed")

\* C17 witness: two callers are between address-set and transfer at the same
\* time, each holding the mutex of its own connection.
C17_Witness ==
    \E c \in Callers : \E b \in Callers \ {c} :
       /\ conn[b] # conn[c]
       /\ pc[c] = "xfer"
       /\ pc[b] = "xfer"
       /\ mtx[conn[c]] = c
       /\ mtx[conn[b]] = b

====
